---------------------------- MODULE Spec2Model ----------------------------
(***************************************************************************)
(* A model of the rag command-line agent: the bounded conversation history *)
(* (src/src/manager.rs), the tool registry and the generated Add tool      *)
(* (src/src/tools.rs, src/macros/src/lib.rs) and the turn loop with its    *)
(* hooks (src/src/processor.rs).                                           *)
(*                                                                         *)
(* Strings are TLC strings; a panic, process::exit or an error reaching    *)
(* main's expect ends the run in pc = "Terminated" with the cause in fault.*)
(***************************************************************************)
EXTENDS Integers, Sequences, FiniteSets, TLC

VARIABLES
    max_size,     \* ContextManager.max_size
    contexts,     \* ContextManager.contexts
    added,        \* history: every message handed to ContextManager::add, in order
    evicted,      \* history: the messages removed by the most recent add
    pc,           \* position of the program
    fault,        \* why the process terminated ("none" while it runs)
    tools,        \* ToolRegistry.tools
    ret,          \* what the last registry or tool call returned
    registered,   \* history: the tools handed to register, in order
    turn,         \* history: number of input lines read
    requests,     \* history: requests submitted in the current turn
    user_input,   \* the input line, as the pre-call hooks rewrite it
    answer,       \* run's answer string for the current stream
    ndeltas,      \* history: elements taken from the streams so far
    tools_call,   \* ToolsExecutor.tools_call
    todo,         \* keys the dispatch loop of pre_next_input has yet to visit
    token_usage,  \* TokenTracer.token_usage
    followed,     \* history: fragments with a name taken from the current
                  \* follow-up stream
    log,          \* history: the items taken from the stream, where the
                  \* specification records them
    hook,         \* the post-call hook that runs next on the item taken last
                  \* (0 outside the for loop over the post-call hooks)
    fired         \* history: the post-call hooks called, in order, each with
                  \* the number of its item

mvars == <<max_size, contexts, added, evicted>>
rvars == <<tools, ret, registered>>
tvars == <<turn, requests, user_input, answer, ndeltas, tools_call, todo, token_usage,
           followed, log, hook, fired>>
vars == <<max_size, contexts, added, evicted, pc, fault, tools, ret, registered,
          turn, requests, user_input, answer, ndeltas, tools_call, todo,
          token_usage, followed, log, hook, fired>>

(***************************************************************************)
(* Bounds of the model.                                                    *)
(***************************************************************************)
MaxCapacity == 4

Capacities == 0..MaxCapacity

\* the capacity main passes to ContextManager::new
MainCapacity == 10

\* lines read by the turn loop
MaxTurns == 2

\* elements taken from the streams of a run
MaxDeltas == 3

\* register calls after ToolRegistry::new
MaxRegister == 2

\* enough add calls to append MaxCapacity + 1 user/assistant pairs
MaxAdds == 2 * MaxCapacity + 2

\* the atoms of a line of the pre-call hooks alone
MaxLine == 3

\* items of the stream whose items are recorded
MaxStream == 3

(***************************************************************************)
(* ContextManager (src/src/manager.rs)                                     *)
(***************************************************************************)
Roles == {"system", "user", "assistant", "tool"}

NoToolCall == "none"

SystemPrompt == "You are an expert in the field of the questions I asked and you gave comprehensive and insightful answers."

\* A stored message; n is its ordinal among all messages ever added (0 for
\* the system message created by new), kept to tell messages apart.
Message(role, content, id, n) ==
    [role |-> role, content |-> content, tool_call_id |-> id, n |-> n]

\* ContextManager::new
ManagerNew == << Message("system", SystemPrompt, NoToolCall, 0) >>

\* remove as it would be if it took the element at index 0
RemoveAt0(c) == Tail(c)

\* remove as it would be if it took the last element
RemoveLast(c) == SubSeq(c, 1, Len(c) - 1)

\* Vec::remove(1): the element at index 1 (the second one) is removed and
\* the rest shifts left; it panics when the index is out of bounds.
RemoveAt1(c) == << c[1] >> \o SubSeq(c, 3, Len(c))

\* shift as it would be if its second call were remove(2)
ShiftSkipsOne(c) ==
    IF Len(c) < 4
    THEN [ctx |-> c, gone |-> << >>, panicked |-> TRUE]
    ELSE [ctx |-> << c[1], c[3] >> \o SubSeq(c, 5, Len(c)),
          gone |-> << c[2], c[4] >>, panicked |-> FALSE]

\* ContextManager::shift: two remove(1) calls, each of which may panic; a
\* panic in the second leaves the first removal done.
Shift(c) ==
    IF Len(c) < 2
    THEN [ctx |-> c, gone |-> << >>, panicked |-> TRUE]
    ELSE IF Len(c) < 3
         THEN [ctx |-> RemoveAt1(c), gone |-> << c[2] >>, panicked |-> TRUE]
         ELSE [ctx |-> RemoveAt1(RemoveAt1(c)), gone |-> << c[2], c[3] >>,
               panicked |-> FALSE]

\* the test of add as it would be if it let one more message in
MustShiftOneLate(c, cap) == Len(c) - 1 = cap + 1

\* the test that triggers eviction in add
MustShift(c, cap) == Len(c) - 1 = cap

\* ContextManager::add: shift when the non-system messages number
\* max_size, then push.
Add(c, cap, m) ==
    IF MustShift(c, cap)
    THEN LET s == Shift(c)
         IN  IF s.panicked
             THEN s
             ELSE [ctx |-> Append(s.ctx, m), gone |-> s.gone, panicked |-> FALSE]
    ELSE [ctx |-> Append(c, m), gone |-> << >>, panicked |-> FALSE]

\* whether add(m) panics in the current state
AddPanics(m) == Add(contexts, max_size, m).panicked

\* What a call of add does to the manager and to the run: a panic ends the
\* process; else the run goes on at next (with fault why).
DoAdd(m, next, why) ==
    LET r == Add(contexts, max_size, m)
    IN  /\ contexts' = r.ctx
        /\ evicted' = r.gone
        /\ added' = Append(added, m)
        /\ max_size' = max_size
        /\ IF r.panicked
           THEN pc' = "Terminated" /\ fault' = "RemovePanic"
           ELSE pc' = next /\ fault' = why

(***************************************************************************)
(* std::collections::HashMap, as the set of its entries.                   *)
(***************************************************************************)
MapEmpty == {}

MapKeys(m) == {e.key : e \in m}

MapHas(m, k) == \E e \in m : e.key = k

\* HashMap::get on a key that is present
MapGet(m, k) == (CHOOSE e \in m : e.key = k).value

\* HashMap::insert: the entry of an equal key is replaced
MapInsert(m, k, v) == {e \in m : e.key # k} \cup {[key |-> k, value |-> v]}

\* every order in which an iteration may visit the elements of S
RECURSIVE Orders(_)
Orders(S) ==
    IF S = {} THEN {<< >>}
    ELSE UNION {{<< x >> \o o : o \in Orders(S \ {x})} : x \in S}

(***************************************************************************)
(* serde_json values, as far as the tools read and build them.             *)
(***************************************************************************)
I32Max == 2147483647

I32Min == (-I32Max) - 1

\* a JSON member: an integer that fits i32, an integer that does not
\* ("wide"), a string, or no member of that name
JInt(v) == [t |-> "int", v |-> v]

JWide == [t |-> "wide", v |-> 0]

JStr == [t |-> "str", v |-> 0]

JMissing == [t |-> "missing", v |-> 0]

\* a JSON value handed to a tool: an object with these members, or (obj
\* FALSE) a value that is no object
JObject(a, b, message, command) ==
    [obj |-> TRUE, a |-> a, b |-> b, message |-> message, command |-> command]

JNotObject ==
    [obj |-> FALSE, a |-> JMissing, b |-> JMissing, message |-> JMissing,
     command |-> JMissing]

\* a JSON value a tool returns: null, or {"result": v}
JNull == [t |-> "null", v |-> 0]

JResult(v) == [t |-> "result", v |-> v]

\* serde_json::to_string of a returned value
JsonToString(j) ==
    IF j.t = "result" THEN "{\"result\":" \o ToString(j.v) \o "}" ELSE "null"

(***************************************************************************)
(* The tools (src/src/tools.rs, src/macros/src/lib.rs)                     *)
(***************************************************************************)
ToolTypes == {"AddTool", "StubTool", "ExecuteCommandTool"}

\* Tool::metadata().name
ToolName(tool) ==
    CASE tool.type = "AddTool" -> "Add"
      [] tool.type = "StubTool" -> "stub_tool"
      [] tool.type = "ExecuteCommandTool" -> "ExecuteCommand"

\* Tool::metadata(), without the schema of the parameters (the description
\* of ExecuteCommand is written without its backquotes)
ToolMetaData(tool) ==
    [name |-> ToolName(tool),
     description |->
        CASE tool.type = "AddTool" -> "\"add a with b\""
          [] tool.type = "StubTool" -> "This is an example"
          [] tool.type = "ExecuteCommandTool" -> "\"Execute any command you pass by (no check). Return Ok if executing successfully, otherwise, return reason.\""]

\* what a call returns: a value (ok), an Err (err), or it panics
Outcome(status, why, value) == [status |-> status, why |-> why, value |-> value]

\* fn add(a: i32, b: i32) -> i32 { a + b }: the sum; when the sum leaves
\* i32, a build with overflow checks panics and one without wraps around.
AddFn(a, b) ==
    IF b > 0 /\ a > I32Max - b
    THEN {Outcome("panic", "attempt to add with overflow", JNull),
          Outcome("ok", "", JResult(((a - I32Max) - 1) + ((b - I32Max) - 1)))}
    ELSE IF b < 0 /\ a < I32Min - b
         THEN {Outcome("panic", "attempt to add with overflow", JNull),
               Outcome("ok", "", JResult(((a + I32Max) + 1) + ((b + I32Max) + 1)))}
         ELSE {Outcome("ok", "", JResult(a + b))}

\* the generated execute as it would be if it passed params.a for both
\* arguments
AddToolExecuteSameArgument(p) ==
    IF p.obj /\ p.a.t = "int" /\ p.b.t = "int"
    THEN AddFn(p.a.v, p.a.v)
    ELSE {Outcome("err", "AddParameters", JNull)}

\* the Tool::execute function_tool generates for add: the parameters are
\* deserialized into AddParameters {a: i32, b: i32}, add is called and its
\* result is wrapped as {"result": result}.
AddToolExecute(p) ==
    IF p.obj /\ p.a.t = "int" /\ p.b.t = "int"
    THEN AddFn(p.a.v, p.b.v)
    ELSE {Outcome("err", "AddParameters", JNull)}

\* StubTool::execute
StubToolExecute(p) ==
    IF p.obj /\ p.message.t = "str"
    THEN {Outcome("ok", "", JNull)}
    ELSE {Outcome("err", "StubToolParameters", JNull)}

\* the Tool::execute generated for execute_command, whose body is todo!()
ExecuteCommandToolExecute(p) ==
    IF p.obj /\ p.command.t = "str"
    THEN {Outcome("panic", "not yet implemented", JNull)}
    ELSE {Outcome("err", "ExecuteCommandParameters", JNull)}

\* Tool::execute, by the type of the tool: the set of possible outcomes
ToolExecute(tool, p) ==
    CASE tool.type = "AddTool" -> AddToolExecute(p)
      [] tool.type = "StubTool" -> StubToolExecute(p)
      [] tool.type = "ExecuteCommandTool" -> ExecuteCommandToolExecute(p)

(***************************************************************************)
(* ToolRegistry (src/src/tools.rs)                                         *)
(***************************************************************************)
\* a tool instance; inst tells two instances of one type apart
Tool(type, inst) == [type |-> type, inst |-> inst]

\* register as it would be if it kept the tool already stored under the name
RegistryRegisterKeepsFirst(m, tool) ==
    IF MapHas(m, ToolName(tool)) THEN m ELSE MapInsert(m, ToolName(tool), tool)

\* ToolRegistry::register
RegistryRegister(m, tool) == MapInsert(m, ToolName(tool), tool)

\* ToolRegistry::new: AddTool is registered
RegistryNew == RegistryRegister(MapEmpty, Tool("AddTool", 0))

\* ToolRegistry::execute as it would be if a name that is not registered
\* gave an Err instead of the panic of expect
RegistryExecuteUnknownIsErr(m, name, p) ==
    IF MapHas(m, name)
    THEN ToolExecute(MapGet(m, name), p)
    ELSE {Outcome("err", "Unknown Tool", JNull)}

\* ToolRegistry::execute: expect("Unknown Tool") panics on a name that is
\* not registered; else the tool's own outcome.
RegistryExecute(m, name, p) ==
    IF MapHas(m, name)
    THEN ToolExecute(MapGet(m, name), p)
    ELSE {Outcome("panic", "Unknown Tool", JNull)}

\* ToolRegistry::list_metadata: the metadata of the values, in the order
\* the map iterates them
RegistryListMetadata(m) ==
    {[i \in 1..Len(o) |-> ToolMetaData(o[i])] : o \in Orders({e.value : e \in m})}

(***************************************************************************)
(* The input line and the commands of CommandParser                        *)
(* (src/src/processor.rs).  A line is a sequence of atoms: plain text, the *)
(* exit word, a file token @file(path) and a command token, an at sign     *)
(* followed by a command between two backquotes.  The backquote is written *)
(* ~ in the strings of this module.                                        *)
(***************************************************************************)
Text(s) == [kind |-> "text", s |-> s]

ExitWord == [kind |-> "exit", s |-> "@exit"]

FileToken(path) == [kind |-> "file", s |-> path]

CommandToken(command) == [kind |-> "cmd", s |-> command]

\* the characters of an atom
Render(atom) ==
    CASE atom.kind = "file" -> "@file(" \o atom.s \o ")"
      [] atom.kind = "cmd" -> "@~" \o atom.s \o "~"
      [] OTHER -> atom.s

\* the characters of a line
RECURSIVE RenderAll(_)
RenderAll(line) ==
    IF line = << >> THEN "" ELSE Render(Head(line)) \o RenderAll(Tail(line))

\* the files of the working directory: fs::read_to_string(path) gives the
\* atoms of the content, or fails
Readable(path) == path \in {"notes.txt", "cmd.txt"}

FileContent(path) ==
    CASE path = "notes.txt" -> << Text("hello") >>
      [] path = "cmd.txt" -> << CommandToken("echo out") >>
      [] OTHER -> << >>

\* what Command::execute gives: the rewritten line, or the way the process
\* ended
Rewritten(line) == [line |-> line, fault |-> "none"]

Ended(line, why) == [line |-> line, fault |-> why]

\* ExitCommand::is
ExitIs(line) == line # << >> /\ line[1].kind = "exit"

\* ExitCommand::execute as it would be without process::exit: it prints bye
\* and returns Ok
ExitExecuteReturns(line) == Rewritten(line)

\* ExitCommand::execute: prints bye and calls process::exit(0)
ExitExecute(line) == Ended(line, "Exit")

\* FileCommand::is
FileIs(line) == \E i \in 1..Len(line) : line[i].kind = "file"

\* FileCommand::execute as it would be with Regex::replace in the place of
\* replace_all: only the first file token is looked at
FileReplaceFirst(line) ==
    IF \E i \in 1..Len(line) : line[i].kind = "file"
    THEN LET i == CHOOSE i \in 1..Len(line) :
                      line[i].kind = "file"
                      /\ \A j \in 1..(i - 1) : line[j].kind # "file"
             a == line[i]
         IN  SubSeq(line, 1, i - 1)
             \o (IF Readable(a.s)
                 THEN << Text(a.s \o ": ") >> \o FileContent(a.s)
                 ELSE << a >>)
             \o SubSeq(line, i + 1, Len(line))
    ELSE line

\* FileCommand::execute: every file token whose file can be read becomes
\* "<path>: <content>"; the others stay as written.
RECURSIVE FileReplaceAll(_)
FileReplaceAll(line) ==
    IF line = << >> THEN << >>
    ELSE LET a == Head(line)
         IN  (IF a.kind = "file" /\ Readable(a.s)
              THEN << Text(a.s \o ": ") >> \o FileContent(a.s)
              ELSE << a >>) \o FileReplaceAll(Tail(line))

FileExecute(line) == Rewritten(FileReplaceAll(line))

\* SystemCommand::is
SystemIs(line) == \E i \in 1..Len(line) : line[i].kind = "cmd"

\* The one match of the pattern of SystemCommand in a line: its .* is
\* greedy, so the match runs from the first command token to the last
\* backquote of the line, the end of the last command token.
SystemFirst(line) ==
    CHOOSE i \in 1..Len(line) :
        line[i].kind = "cmd" /\ \A j \in 1..(i - 1) : line[j].kind # "cmd"

SystemLast(line) ==
    CHOOSE i \in 1..Len(line) :
        line[i].kind = "cmd" /\ \A j \in (i + 1)..Len(line) : line[j].kind # "cmd"

\* the text the group "command" captures
SystemCaptured(line) ==
    LET f == SystemFirst(line)
        l == SystemLast(line)
    IN  IF f = l THEN line[f].s
        ELSE line[f].s \o "~" \o RenderAll(SubSeq(line, f + 1, l - 1))
                       \o "@~" \o line[l].s

\* The commands of the lines and what shell_words::split makes of them.
\* Program: the first word of a command; "echo" and "false" are programs
\* of the machine, any other word is not.
Program(command) ==
    CASE command \in {"echo out", "echo 'out"} -> "echo"
      [] OTHER -> command

\* the command has a quote that is not closed
OpenQuote(command) == command = "echo 'out"

\* the command without its quotes
Unquoted(command) == IF command = "echo 'out" THEN "echo out" ELSE command

\* the words after the program, joined as echo writes them
EchoArgs(command) == IF Program(command) = "echo" THEN "out" ELSE ""

\* the characters of an atom once split has removed the quotes
RenderUnquoted(atom) ==
    IF atom.kind = "cmd" THEN "@~" \o Unquoted(atom.s) \o "~" ELSE Render(atom)

RECURSIVE RenderAllUnquoted(_)
RenderAllUnquoted(line) ==
    IF line = << >> THEN ""
    ELSE RenderUnquoted(Head(line)) \o RenderAllUnquoted(Tail(line))

\* What splitting and running the captured command gives.  unsplittable:
\* shell_words::split fails on a quote that is not closed; empty: it
\* yields no word; nostart: the first word is no program; else the exit
\* status with the decoded standard output.  When the match spans several
\* command tokens, the first word of the capture is the first word of the
\* first token if that token has more words, and else runs on into the
\* backquote that follows it.
CommandRun(line) ==
    LET f == SystemFirst(line)
        l == SystemLast(line)
        first == line[f].s
        quotes == Cardinality({i \in f..l :
                      line[i].kind = "cmd" /\ OpenQuote(line[i].s)})
    IN  CASE quotes % 2 = 1 -> [kind |-> "unsplittable", stdout |-> ""]
          [] quotes % 2 = 0 /\ f = l /\ first = "" ->
                [kind |-> "empty", stdout |-> ""]
          [] quotes % 2 = 0 /\ f = l /\ Program(first) = "false" ->
                [kind |-> "failure", stdout |-> ""]
          [] quotes % 2 = 0 /\ f = l /\ Program(first) = "echo" ->
                [kind |-> "success", stdout |-> EchoArgs(first) \o "\n"]
          [] quotes % 2 = 0 /\ f # l /\ Program(first) = "echo" ->
                [kind |-> "success",
                 stdout |-> EchoArgs(first) \o "~"
                            \o RenderAllUnquoted(SubSeq(line, f + 1, l - 1))
                            \o "@~" \o Unquoted(line[l].s) \o "\n"]
          [] OTHER -> [kind |-> "nostart", stdout |-> ""]

\* SystemCommand::execute (a build for a system other than Windows): the
\* match is replaced by the output of the command when it succeeds and
\* stays when it fails; split(..).unwrap(), split_first().unwrap() and
\* output().expect(..) panic.
SystemExecute(line) ==
    LET f == SystemFirst(line)
        l == SystemLast(line)
        command == SystemCaptured(line)
        run == CommandRun(line)
    IN  IF command = "(?P<command>.*)" THEN Rewritten(line)
        ELSE CASE run.kind = "unsplittable" -> Ended(line, "SplitPanic")
               [] run.kind = "empty" -> Ended(line, "SplitFirstPanic")
               [] run.kind = "nostart" -> Ended(line, "Failed to get command output")
               [] run.kind = "failure" -> Rewritten(line)
               [] run.kind = "success" ->
                     Rewritten(SubSeq(line, 1, f - 1) \o << Text(run.stdout) >>
                               \o SubSeq(line, l + 1, Len(line)))

(***************************************************************************)
(* The elements of a response stream (src/src/rq.rs) and the hooks that    *)
(* fold them (src/src/processor.rs).                                       *)
(***************************************************************************)
\* Option::None of a name or of an arguments string
None == "<None>"

\* Option::None of usage
NoUsage == -1

\* one ChatCompletionMessageToolCallChunk; function FALSE is function: None
Fragment(index, function, name, arguments) ==
    [index |-> index, function |-> function, name |-> name,
     arguments |-> arguments]

\* a stream item: Err(_) ("error"), a value that does not deserialize into
\* RsChunkBody ("malformed"), or a chunk; choices FALSE is an empty choices
TransportError ==
    [kind |-> "error", choices |-> FALSE, content |-> "", tool_calls |-> << >>,
     usage |-> NoUsage]

Malformed ==
    [kind |-> "malformed", choices |-> FALSE, content |-> "", tool_calls |-> << >>,
     usage |-> NoUsage]

Chunk(choices, content, tool_calls, usage) ==
    [kind |-> "chunk", choices |-> choices, content |-> content,
     tool_calls |-> tool_calls, usage |-> usage]

\* ToolsExecutor::post_call for one fragment as it would be with
\* entry(..).or_insert_with(..) in the place of and_modify: arguments for
\* an index without an entry make one, its name empty
FoldFragmentInsertsOrphan(m, f) ==
    LET named == IF f.function /\ f.name # None
                 THEN MapInsert(m, f.index, [name |-> f.name, arguments |-> ""])
                 ELSE m
    IN  IF f.function /\ f.arguments # None
        THEN MapInsert(named, f.index,
                       IF MapHas(named, f.index)
                       THEN [name |-> MapGet(named, f.index).name,
                             arguments |-> MapGet(named, f.index).arguments
                                           \o f.arguments]
                       ELSE [name |-> "", arguments |-> f.arguments])
        ELSE named

\* ToolsExecutor::post_call for one fragment: a name inserts (name, ""),
\* replacing an entry of that index; arguments are pushed onto the entry
\* of the index if there is one.
FoldFragment(m, f) ==
    LET named == IF f.function /\ f.name # None
                 THEN MapInsert(m, f.index, [name |-> f.name, arguments |-> ""])
                 ELSE m
    IN  IF f.function /\ f.arguments # None /\ MapHas(named, f.index)
        THEN MapInsert(named, f.index,
                       [name |-> MapGet(named, f.index).name,
                        arguments |-> MapGet(named, f.index).arguments \o f.arguments])
        ELSE named

RECURSIVE FoldFragments(_, _)
FoldFragments(m, fs) ==
    IF fs = << >> THEN m ELSE FoldFragments(FoldFragment(m, Head(fs)), Tail(fs))

\* ToolsExecutor::post_call
ToolsExecutorPostCall(m, chunk) ==
    IF chunk.choices THEN FoldFragments(m, chunk.tool_calls) ELSE m

\* TokenTracer::post_call (the total is a u64, which the totals of the model
\* stay far below)
TokenTracerPostCall(total, chunk) ==
    IF chunk.usage # NoUsage THEN total + chunk.usage ELSE total

\* answer.push_str of run as it would be with insert_str(0, ..): the
\* content is put in front
AnswerPushInFront(a, chunk) == IF chunk.choices THEN chunk.content \o a ELSE a

\* answer.push_str of run
AnswerPush(a, chunk) == IF chunk.choices THEN a \o chunk.content ELSE a

\* serde_json::from_str of an accumulated arguments string
ParseJson(str) ==
    CASE str = "{\"a\":3,\"b\":5}" ->
            [ok |-> TRUE, value |-> JObject(JInt(3), JInt(5), JMissing, JMissing)]
      [] str = "{\"a\":1,\"b\":2}" ->
            [ok |-> TRUE, value |-> JObject(JInt(1), JInt(2), JMissing, JMissing)]
      [] str = "{}" ->
            [ok |-> TRUE, value |-> JObject(JMissing, JMissing, JMissing, JMissing)]
      [] OTHER -> [ok |-> FALSE, value |-> JNotObject]

(***************************************************************************)
(* The values of the parts a specification leaves alone.                   *)
(***************************************************************************)
\* ret before any call
NoRet ==
    [op |-> "none", name |-> "", params |-> JNotObject,
     out |-> Outcome("ok", "", JNull), by |-> Tool("AddTool", 0), list |-> << >>]

IdleManager ==
    /\ max_size = MainCapacity
    /\ contexts = ManagerNew
    /\ added = << >>
    /\ evicted = << >>

IdleRegistry ==
    /\ tools = RegistryNew
    /\ ret = NoRet
    /\ registered = << Tool("AddTool", 0) >>

IdleTurn ==
    /\ turn = 0
    /\ requests = 0
    /\ user_input = << >>
    /\ answer = ""
    /\ ndeltas = 0
    /\ tools_call = MapEmpty
    /\ todo = {}
    /\ token_usage = 0
    /\ followed = 0
    /\ log = << >>
    /\ hook = 0
    /\ fired = << >>

(***************************************************************************)
(* The manager on its own: any sequence of add calls on a manager of any   *)
(* capacity.                                                               *)
(***************************************************************************)
InitManager ==
    /\ max_size \in Capacities
    /\ contexts = ManagerNew
    /\ added = << >>
    /\ evicted = << >>
    /\ pc = "Manager"
    /\ fault = "none"
    /\ IdleRegistry
    /\ IdleTurn

ManagerAdd ==
    /\ pc = "Manager"
    /\ Len(added) < MaxAdds
    /\ \E role \in {"user", "assistant", "tool"} :
          DoAdd(Message(role, "m", NoToolCall, Len(added) + 1), pc, fault)
    /\ UNCHANGED <<rvars, tvars>>

NextManager == ManagerAdd

SpecManager == InitManager /\ [][NextManager]_vars

(***************************************************************************)
(* The registry on its own: any sequence of register, execute and          *)
(* list_metadata calls on the registry ToolRegistry::new builds.           *)
(***************************************************************************)
\* the integers the parameters a and b are drawn from: the ends of i32,
\* the values of the test and values around zero
ArgInts == {I32Min, -1, 0, 3, 5, I32Max}

ArgMembers == {JInt(v) : v \in ArgInts} \cup {JWide, JStr, JMissing}

\* the parameter values of the calls: objects with members a and b of every
\* kind, the objects StubTool and ExecuteCommand accept, and a value that is
\* no object
ToolParameters ==
    {JObject(a, b, JMissing, JMissing) : a \in ArgMembers, b \in ArgMembers}
    \cup {JObject(JMissing, JMissing, JStr, JMissing),
          JObject(JMissing, JMissing, JMissing, JStr),
          JNotObject}

CallNames == {"Add", "stub_tool", "ExecuteCommand", "Unknown"}

InitRegistry ==
    /\ IdleManager
    /\ IdleRegistry
    /\ IdleTurn
    /\ pc = "Registry"
    /\ fault = "none"

Register ==
    /\ pc = "Registry"
    /\ Len(registered) <= MaxRegister
    /\ \E type \in ToolTypes :
          LET tool == Tool(type, Len(registered))
          IN  /\ tools' = RegistryRegister(tools, tool)
              /\ registered' = Append(registered, tool)
              /\ ret' = [NoRet EXCEPT !.op = "register", !.name = ToolName(tool)]
    /\ UNCHANGED <<mvars, tvars, pc, fault>>

Execute ==
    /\ pc = "Registry"
    /\ \E name \in CallNames, p \in ToolParameters :
          \E out \in RegistryExecute(tools, name, p) :
             /\ ret' = [NoRet EXCEPT !.op = "execute", !.name = name, !.params = p,
                                     !.out = out,
                                     !.by = IF MapHas(tools, name)
                                            THEN MapGet(tools, name) ELSE NoRet.by]
             /\ IF out.status = "panic"
                THEN pc' = "Terminated" /\ fault' = out.why
                ELSE UNCHANGED <<pc, fault>>
    /\ UNCHANGED <<mvars, tvars, tools, registered>>

ListMetadata ==
    /\ pc = "Registry"
    /\ \E l \in RegistryListMetadata(tools) :
          ret' = [NoRet EXCEPT !.op = "list_metadata", !.list = l]
    /\ UNCHANGED <<mvars, tvars, tools, registered, pc, fault>>

NextRegistry == Register \/ Execute \/ ListMetadata

SpecRegistry == InitRegistry /\ [][NextRegistry]_vars

(***************************************************************************)
(* The turn loop: Processor::run with the default hooks, on the manager    *)
(* and the registry main and Context::new build.  pc names the hook or     *)
(* the statement that runs next.                                           *)
(***************************************************************************)
\* the capacities of the manager: the one main passes and small ones, which
\* evict within a few turns
TurnCapacities == {1, 2, MainCapacity}

\* the lines read
TurnInputs ==
    { << Text("hi") >>,
      << ExitWord >>,
      << ExitWord, Text(" "), FileToken("notes.txt") >>,
      << Text("see "), FileToken("notes.txt"), Text(" run "), CommandToken("echo out") >>,
      << CommandToken("nosuchprogram") >> }

\* the fragments and the chunks of the streams
TurnFragments ==
    {Fragment(i, TRUE, n, a) :
        i \in 0..1, n \in {None, "Add", "Sub"},
        a \in {None, "{}", "{\"a\":3,\"b\":5}"}}
    \cup {Fragment(0, FALSE, None, None)}

TurnChunks ==
    {Chunk(TRUE, c, << >>, NoUsage) : c \in {"", "ok"}}
    \cup {Chunk(TRUE, "", << f >>, NoUsage) : f \in TurnFragments}
    \cup {Chunk(FALSE, "", << >>, u) : u \in {NoUsage, 7}}

TurnElements == TurnChunks \cup {TransportError, Malformed}

Init ==
    /\ max_size \in TurnCapacities
    /\ contexts = ManagerNew
    /\ added = << >>
    /\ evicted = << >>
    /\ IdleRegistry
    /\ IdleTurn
    /\ pc = "AwaitInput"
    /\ fault = "none"

\* the process ends: a panic, process::exit, or an Err that run returns to
\* main, whose expect panics
Terminate(why) == pc' = "Terminated" /\ fault' = why

\* the commands as they would be if the shell command were registered
\* before the file command
CommandsShellFirst == << "ExitCommand", "SystemCommand", "FileCommand" >>

\* CommandParser::new: the commands in the order of register_command
Commands == << "ExitCommand", "FileCommand", "SystemCommand" >>

\* the for loop of CommandParser::pre_call: the command after this one, or the
\* next pre-call hook after the last
AfterCommand(name) ==
    LET i == CHOOSE k \in 1..Len(Commands) : Commands[k] = name
    IN  IF i = Len(Commands) THEN "AnswerPrompt" ELSE Commands[i + 1]

\* rl.readline(..)?.trim(): a line is read
ReadLine ==
    /\ pc = "AwaitInput"
    /\ turn < MaxTurns
    /\ \E line \in TurnInputs : user_input' = line
    /\ turn' = turn + 1
    /\ requests' = 0
    /\ pc' = Commands[1]
    /\ UNCHANGED <<mvars, rvars, fault, answer, ndeltas, tools_call, todo, token_usage, followed, log,
                   hook, fired>>

\* rl.readline(..)? fails (end of input, interrupt)
ReadLineFails ==
    /\ pc = "AwaitInput"
    /\ Terminate("ReadlineError")
    /\ UNCHANGED <<mvars, rvars, tvars>>

\* one command of CommandParser::pre_call: it runs when is(input) holds
RunCommand(is, result, next) ==
    /\ IF is
       THEN /\ user_input' = result.line
            /\ IF result.fault = "none"
               THEN pc' = next /\ fault' = fault
               ELSE Terminate(result.fault)
       ELSE /\ pc' = next
            /\ UNCHANGED <<user_input, fault>>
    /\ UNCHANGED <<mvars, rvars, turn, requests, answer, ndeltas, tools_call, todo,
                   token_usage, followed, log,
                   hook, fired>>

PreCallExitCommand ==
    /\ pc = "ExitCommand"
    /\ RunCommand(ExitIs(user_input), ExitExecute(user_input), AfterCommand("ExitCommand"))

PreCallFileCommand ==
    /\ pc = "FileCommand"
    /\ RunCommand(FileIs(user_input), FileExecute(user_input), AfterCommand("FileCommand"))

PreCallSystemCommand ==
    /\ pc = "SystemCommand"
    /\ RunCommand(SystemIs(user_input), SystemExecute(user_input),
                  AfterCommand("SystemCommand"))

\* AnswerPrompt::pre_call prints the prompt
PreCallAnswerPrompt ==
    /\ pc = "AnswerPrompt"
    /\ pc' = "Submitting"
    /\ UNCHANGED <<mvars, rvars, tvars, fault>>

\* the user message run appends
UserMessage == Message("user", RenderAll(user_input), NoToolCall, Len(added) + 1)

\* run as it would be if it submitted the request without appending the
\* user message
SubmitWithoutUserMessage ==
    /\ pc = "Submitting"
    /\ pc' = "Streaming"
    /\ requests' = requests + 1
    /\ answer' = ""
    /\ UNCHANGED <<mvars, rvars, fault, turn, user_input, ndeltas, tools_call, todo,
                   token_usage, followed, log, hook, fired>>

\* run appends the user message, builds the request from the messages and
\* submits it
Submit ==
    /\ pc = "Submitting"
    /\ DoAdd(UserMessage, "Streaming", "none")
    /\ IF AddPanics(UserMessage)
       THEN UNCHANGED <<requests, answer, ndeltas>>
       ELSE requests' = requests + 1 /\ answer' = "" /\ ndeltas' = ndeltas
    /\ UNCHANGED <<rvars, turn, user_input, tools_call, todo, token_usage, followed, log,
                   hook, fired>>

\* the same, when create_stream_byot(..).await? fails
SubmitFails ==
    /\ pc = "Submitting"
    /\ DoAdd(UserMessage, "Terminated", "TransportError")
    /\ IF AddPanics(UserMessage)
       THEN UNCHANGED requests
       ELSE requests' = requests + 1
    /\ UNCHANGED <<rvars, turn, user_input, answer, ndeltas, tools_call, todo,
                   token_usage, followed, log,
                   hook, fired>>

\* one item of the stream in run, as it would be if the error of a value
\* that does not deserialize were returned after the effects of the stream
\* had been taken back
StreamItemRollsBack(e) ==
    /\ ndeltas' = ndeltas + 1
    /\ CASE e.kind = "error" ->
              UNCHANGED <<pc, fault, answer, tools_call, token_usage>>
         [] e.kind = "malformed" ->
              /\ Terminate("DeserializeError")
              /\ answer' = ""
              /\ tools_call' = MapEmpty
              /\ token_usage' = 0
         [] e.kind = "chunk" ->
              /\ answer' = AnswerPush(answer, e)
              /\ tools_call' = ToolsExecutorPostCall(tools_call, e)
              /\ token_usage' = TokenTracerPostCall(token_usage, e)
              /\ UNCHANGED <<pc, fault>>

\* one item of the stream in run, as it would be if an Err item were
\* returned with the ? operator
StreamItemStopsAtError(e) ==
    /\ ndeltas' = ndeltas + 1
    /\ CASE e.kind = "error" ->
              /\ Terminate("TransportError")
              /\ UNCHANGED <<answer, tools_call, token_usage>>
         [] e.kind = "malformed" ->
              /\ Terminate("DeserializeError")
              /\ UNCHANGED <<answer, tools_call, token_usage>>
         [] e.kind = "chunk" ->
              /\ answer' = AnswerPush(answer, e)
              /\ tools_call' = ToolsExecutorPostCall(tools_call, e)
              /\ token_usage' = TokenTracerPostCall(token_usage, e)
              /\ UNCHANGED <<pc, fault>>

\* one item of the stream in run: an Err item is skipped; a value that does
\* not deserialize makes run return the error; a chunk is pushed onto the
\* answer and handed to the post-call hooks ReasoningCollector,
\* ContentCollector, ToolsExecutor and TokenTracer in this order.
StreamItem(e) ==
    /\ ndeltas' = ndeltas + 1
    /\ CASE e.kind = "error" ->
              UNCHANGED <<pc, fault, answer, tools_call, token_usage>>
         [] e.kind = "malformed" ->
              /\ Terminate("DeserializeError")
              /\ UNCHANGED <<answer, tools_call, token_usage>>
         [] e.kind = "chunk" ->
              /\ answer' = AnswerPush(answer, e)
              /\ tools_call' = ToolsExecutorPostCall(tools_call, e)
              /\ token_usage' = TokenTracerPostCall(token_usage, e)
              /\ UNCHANGED <<pc, fault>>

\* the loop of run takes an item of the stream
StreamNext ==
    /\ pc = "Streaming"
    /\ ndeltas < MaxDeltas
    /\ \E e \in TurnElements : StreamItem(e)
    /\ UNCHANGED <<mvars, rvars, turn, requests, user_input, todo, followed, log,
                   hook, fired>>

\* the stream ends: run appends the assistant message and goes on to the
\* pre-next-input hooks
StreamEnd ==
    /\ pc = "Streaming"
    /\ DoAdd(Message("assistant", answer, NoToolCall, Len(added) + 1),
             "ToolsExecutor", "none")
    /\ UNCHANGED <<rvars, tvars>>

\* ToolsExecutor::pre_next_input as it would begin without the is_empty
\* test: the loop and the follow-up request come in every turn
PreNextInputToolsExecutorAlways ==
    /\ pc = "ToolsExecutor"
    /\ pc' = "ToolDispatch"
    /\ todo' = MapKeys(tools_call)
    /\ UNCHANGED <<mvars, rvars, fault, turn, requests, user_input, answer, ndeltas,
                   tools_call, token_usage, followed, log,
                   hook, fired>>

\* ToolsExecutor::pre_next_input begins: nothing to do without pending
\* calls; else the loop over the entries of tools_call starts
PreNextInputToolsExecutor ==
    /\ pc = "ToolsExecutor"
    /\ IF tools_call = MapEmpty
       THEN pc' = "TokenTracer" /\ todo' = todo
       ELSE pc' = "ToolDispatch" /\ todo' = MapKeys(tools_call)
    /\ UNCHANGED <<mvars, rvars, fault, turn, requests, user_input, answer, ndeltas,
                   tools_call, token_usage, followed, log,
                   hook, fired>>

\* the tool message of a call
ToolMessage(index, value) ==
    Message("tool", JsonToString(value), ToString(index), Len(added) + 1)

\* one round of the loop over tools_call as it would be if a call whose
\* arguments do not parse or whose tool returns an Err were passed over
DispatchNextSkipsFailure ==
    /\ pc = "ToolDispatch"
    /\ \E index \in todo :
          LET call == MapGet(tools_call, index)
              parsed == ParseJson(call.arguments)
          IN  IF ~parsed.ok
              THEN /\ todo' = todo \ {index}
                   /\ UNCHANGED <<mvars, pc, fault>>
              ELSE \E out \in RegistryExecute(tools, call.name, parsed.value) :
                      CASE out.status = "ok" ->
                              /\ DoAdd(ToolMessage(index, out.value), "ToolDispatch", "none")
                              /\ todo' = todo \ {index}
                        [] out.status = "panic" ->
                              /\ Terminate(out.why)
                              /\ UNCHANGED <<mvars, todo>>
                        [] OTHER ->
                              /\ todo' = todo \ {index}
                              /\ UNCHANGED <<mvars, pc, fault>>
    /\ UNCHANGED <<rvars, turn, requests, user_input, answer, ndeltas, tools_call,
                   token_usage, followed, log, hook, fired>>

\* one round of the loop over tools_call, in the order the map iterates:
\* the arguments are parsed (an Err is returned with ?), the registry
\* executes the tool (which may panic or return an Err) and the result is
\* appended as a tool message
DispatchNext ==
    /\ pc = "ToolDispatch"
    /\ \E index \in todo :
          LET call == MapGet(tools_call, index)
              parsed == ParseJson(call.arguments)
          IN  IF ~parsed.ok
              THEN /\ Terminate("ArgumentParseError")
                   /\ UNCHANGED <<mvars, todo>>
              ELSE \E out \in RegistryExecute(tools, call.name, parsed.value) :
                      IF out.status = "ok"
                      THEN /\ DoAdd(ToolMessage(index, out.value), "ToolDispatch", "none")
                           /\ todo' = todo \ {index}
                      ELSE /\ Terminate(IF out.status = "panic"
                                        THEN out.why ELSE "ToolError")
                           /\ UNCHANGED <<mvars, todo>>
    /\ UNCHANGED <<rvars, turn, requests, user_input, answer, ndeltas, tools_call,
                   token_usage, followed, log,
                   hook, fired>>

\* after the loop the follow-up request is built from the messages and
\* submitted
FollowupSubmit ==
    /\ pc = "ToolDispatch"
    /\ todo = {}
    /\ requests' = requests + 1
    /\ followed' = 0
    /\ pc' = "FollowupStreaming"
    /\ UNCHANGED <<mvars, rvars, fault, turn, user_input, answer, ndeltas, tools_call,
                   todo, token_usage, log,
                   hook, fired>>

\* the same, when create_stream_byot(..).await.unwrap() panics
FollowupSubmitFails ==
    /\ pc = "ToolDispatch"
    /\ todo = {}
    /\ requests' = requests + 1
    /\ Terminate("FollowupTransportPanic")
    /\ UNCHANGED <<mvars, rvars, turn, user_input, answer, ndeltas, tools_call, todo,
                   token_usage, followed, log,
                   hook, fired>>

\* the fragments of an element that bear a name
NamedFragments(e) ==
    IF e.kind = "chunk" /\ e.choices
    THEN Cardinality({i \in 1..Len(e.tool_calls) :
                        e.tool_calls[i].function /\ e.tool_calls[i].name # None})
    ELSE 0

\* the follow-up loop as it would be if it handed its chunks to the
\* post-call hooks, as the loop of run does
FollowupNextWithPostCallHooks ==
    /\ pc = "FollowupStreaming"
    /\ ndeltas < MaxDeltas
    /\ \E e \in TurnElements :
          /\ ndeltas' = ndeltas + 1
          /\ followed' = followed + NamedFragments(e)
          /\ IF e.kind = "malformed"
             THEN Terminate("Failed to parse chunk")
             ELSE UNCHANGED <<pc, fault>>
          /\ IF e.kind = "chunk"
             THEN /\ tools_call' = ToolsExecutorPostCall(tools_call, e)
                  /\ token_usage' = TokenTracerPostCall(token_usage, e)
             ELSE UNCHANGED <<tools_call, token_usage>>
    /\ UNCHANGED <<mvars, rvars, turn, requests, user_input, answer, todo, log,
                   hook, fired>>

\* one item of the follow-up stream: an Err item is skipped, a value that
\* does not deserialize panics, a chunk is only written to the terminal
FollowupNext ==
    /\ pc = "FollowupStreaming"
    /\ ndeltas < MaxDeltas
    /\ \E e \in TurnElements :
          /\ ndeltas' = ndeltas + 1
          /\ followed' = followed + NamedFragments(e)
          /\ IF e.kind = "malformed"
             THEN Terminate("Failed to parse chunk")
             ELSE UNCHANGED <<pc, fault>>
    /\ UNCHANGED <<mvars, rvars, turn, requests, user_input, answer, tools_call, todo,
                   token_usage, log,
                   hook, fired>>

\* the end of the follow-up stream as it would be without
\* tools_call.borrow_mut().clear()
FollowupEndKeepsPending ==
    /\ pc = "FollowupStreaming"
    /\ pc' = "TokenTracer"
    /\ UNCHANGED <<mvars, rvars, tvars, fault>>

\* the end of the follow-up stream as it would be if the text of the
\* stream were appended as an assistant message
FollowupEndAppendsAnswer ==
    /\ pc = "FollowupStreaming"
    /\ tools_call' = MapEmpty
    /\ DoAdd(Message("assistant", "", NoToolCall, Len(added) + 1), "TokenTracer", fault)
    /\ UNCHANGED <<rvars, turn, requests, user_input, answer, ndeltas, todo,
                   token_usage, followed, log, hook, fired>>

\* the follow-up stream ends: tools_call is cleared and the hook returns
FollowupEnd ==
    /\ pc = "FollowupStreaming"
    /\ tools_call' = MapEmpty
    /\ pc' = "TokenTracer"
    /\ UNCHANGED <<mvars, rvars, fault, turn, requests, user_input, answer, ndeltas,
                   todo, token_usage, followed, log,
                   hook, fired>>

\* TokenTracer::pre_next_input as it would be if it wrote the total of the
\* turn and started the next turn from 0
PreNextInputTokenTracerResets ==
    /\ pc = "TokenTracer"
    /\ pc' = "NewLine"
    /\ token_usage' = 0
    /\ UNCHANGED <<mvars, rvars, fault, turn, requests, user_input, answer, ndeltas,
                   tools_call, todo, followed, log, hook, fired>>

\* TokenTracer::pre_next_input writes the total
PreNextInputTokenTracer ==
    /\ pc = "TokenTracer"
    /\ pc' = "NewLine"
    /\ UNCHANGED <<mvars, rvars, tvars, fault>>

\* NewLine::pre_next_input; the loop of run starts over
PreNextInputNewLine ==
    /\ pc = "NewLine"
    /\ pc' = "AwaitInput"
    /\ UNCHANGED <<mvars, rvars, tvars, fault>>

Next ==
    \/ ReadLine
    \/ ReadLineFails
    \/ PreCallExitCommand
    \/ PreCallFileCommand
    \/ PreCallSystemCommand
    \/ PreCallAnswerPrompt
    \/ Submit
    \/ SubmitFails
    \/ StreamNext
    \/ StreamEnd
    \/ PreNextInputToolsExecutor
    \/ DispatchNext
    \/ FollowupSubmit
    \/ FollowupSubmitFails
    \/ FollowupNext
    \/ FollowupEnd
    \/ PreNextInputTokenTracer
    \/ PreNextInputNewLine

Spec == Init /\ [][Next]_vars

(***************************************************************************)
(* The pre-call hooks alone: one line, richer than the lines of the turn   *)
(* loop, goes through the commands of CommandParser and AnswerPrompt and   *)
(* is submitted.                                                           *)
(***************************************************************************)
TransformAtoms ==
    { Text("What is 2+2? "), ExitWord,
      FileToken("notes.txt"), FileToken("cmd.txt"), FileToken("missing.txt"),
      CommandToken("echo out"), CommandToken("false"), CommandToken(""),
      CommandToken("echo 'out"), CommandToken("nosuchprogram") }

\* readline(..).trim(): a line does not end in white space
Trimmed(line) == line[Len(line)] # Text("What is 2+2? ")

TransformInputs ==
    {line \in UNION {[1..n -> TransformAtoms] : n \in 1..MaxLine} : Trimmed(line)}

InitTransform ==
    /\ IdleManager
    /\ IdleRegistry
    /\ turn = 1
    /\ requests = 0
    /\ user_input \in TransformInputs
    /\ answer = ""
    /\ ndeltas = 0
    /\ tools_call = MapEmpty
    /\ todo = {}
    /\ token_usage = 0
    /\ followed = 0
    /\ log = << >>
    /\ hook = 0
    /\ fired = << >>
    /\ pc = Commands[1]
    /\ fault = "none"

NextTransform ==
    \/ PreCallExitCommand
    \/ PreCallFileCommand
    \/ PreCallSystemCommand
    \/ PreCallAnswerPrompt
    \/ Submit
    \/ SubmitFails

SpecTransform == InitTransform /\ [][NextTransform]_vars

(***************************************************************************)
(* The first turn from the submission of the line "hi" on, with the items  *)
(* of its stream recorded in log: the stream, the assistant message and    *)
(* the dispatch of the pending calls up to the follow-up request.  The     *)
(* fragments are richer than those of the turn loop: arguments arrive in   *)
(* parts, a chunk may carry two fragments, and three calls may be pending. *)
(***************************************************************************)
\* the capacity main passes and a small one, which three tool messages
\* overflow
StreamCapacities == {2, MainCapacity}

ArgsWhole == "{\"a\":1,\"b\":2}"

ArgsHead == "{\"a\":"

ArgsTail == "1,\"b\":2}"

StreamFragments ==
    {Fragment(i, TRUE, "Add", None) : i \in 0..1}
    \cup {Fragment(i, TRUE, "Sub", None) : i \in 0..1}
    \cup {Fragment(i, TRUE, None, a) : i \in 0..1, a \in {ArgsHead, ArgsTail}}
    \cup {Fragment(i, TRUE, "Add", ArgsWhole) : i \in 0..2}
    \cup {Fragment(0, FALSE, None, None)}

StreamChunks ==
    {Chunk(TRUE, c, << >>, NoUsage) : c \in {"", "Hel", "lo"}}
    \cup {Chunk(TRUE, "", << f >>, NoUsage) : f \in StreamFragments}
    \cup {Chunk(TRUE, "", << Fragment(0, TRUE, "Add", None),
                             Fragment(0, TRUE, None, ArgsHead) >>, NoUsage),
          Chunk(TRUE, "", << Fragment(0, TRUE, None, ArgsHead),
                             Fragment(0, TRUE, None, ArgsTail) >>, NoUsage),
          Chunk(TRUE, "", << Fragment(1, TRUE, None, ArgsWhole),
                             Fragment(0, TRUE, "Add", ArgsWhole) >>, NoUsage)}
    \cup {Chunk(FALSE, "", << >>, u) : u \in {NoUsage, 7}}

StreamElements == StreamChunks \cup {TransportError, Malformed}

\* the user message of the line "hi"
HiMessage == Message("user", "hi", NoToolCall, 1)

InitStream ==
    /\ max_size \in StreamCapacities
    /\ contexts = Append(ManagerNew, HiMessage)
    /\ added = << HiMessage >>
    /\ evicted = << >>
    /\ IdleRegistry
    /\ turn = 1
    /\ requests = 1
    /\ user_input = << Text("hi") >>
    /\ answer = ""
    /\ ndeltas = 0
    /\ tools_call = MapEmpty
    /\ todo = {}
    /\ token_usage = 0
    /\ followed = 0
    /\ log = << >>
    /\ hook = 0
    /\ fired = << >>
    /\ pc = "Streaming"
    /\ fault = "none"

\* the loop of run takes an item of the stream, which is recorded
StreamTake ==
    /\ pc = "Streaming"
    /\ Len(log) < MaxStream
    /\ \E e \in StreamElements :
          /\ StreamItem(e)
          /\ log' = Append(log, e)
    /\ UNCHANGED <<mvars, rvars, turn, requests, user_input, todo, followed, hook,
                   fired>>

NextStream ==
    \/ StreamTake
    \/ StreamEnd
    \/ PreNextInputToolsExecutor
    \/ DispatchNext
    \/ FollowupSubmit
    \/ FollowupSubmitFails

SpecStream == InitStream /\ [][NextStream]_vars

(***************************************************************************)
(* The stream loop of run hook by hook: the first stream of a turn, each   *)
(* call of a post-call hook a step of its own.                             *)
(***************************************************************************)
\* the post-call hooks as they would be if the token tracer were registered
\* first
PostCallHooksTracerFirst ==
    << "TokenTracer", "ReasoningCollector", "ContentCollector", "ToolsExecutor" >>

\* Processor::add_default_hooks: post_call_hooks in the order of add_hook
PostCallHooks ==
    << "ReasoningCollector", "ContentCollector", "ToolsExecutor", "TokenTracer" >>

HookElements ==
    {Chunk(TRUE, "Hel", << >>, NoUsage),
     Chunk(TRUE, "", << Fragment(0, TRUE, "Add", ArgsWhole) >>, NoUsage),
     Chunk(FALSE, "", << >>, 7),
     TransportError, Malformed}

\* stream.next() gives an item: an Err item is skipped, a value that does
\* not deserialize makes run return the error, a chunk is pushed onto the
\* answer and the for loop over the post-call hooks begins
StreamPoll ==
    /\ pc = "Streaming"
    /\ Len(log) < MaxStream
    /\ \E e \in HookElements :
          /\ log' = Append(log, e)
          /\ ndeltas' = ndeltas + 1
          /\ CASE e.kind = "error" -> UNCHANGED <<pc, fault, answer, hook>>
               [] e.kind = "malformed" ->
                     /\ Terminate("DeserializeError")
                     /\ UNCHANGED <<answer, hook>>
               [] e.kind = "chunk" ->
                     /\ answer' = AnswerPush(answer, e)
                     /\ pc' = "PostCall"
                     /\ hook' = 1
                     /\ fault' = fault
    /\ UNCHANGED <<mvars, rvars, turn, requests, user_input, tools_call, todo,
                   token_usage, followed, fired>>

\* one turn of the for loop over post_call_hooks: the hook is called with
\* the chunk; ReasoningCollector and ContentCollector write to the terminal
PostCall ==
    /\ pc = "PostCall"
    /\ LET name == PostCallHooks[hook]
           chunk == log[Len(log)]
       IN  /\ tools_call' = (IF name = "ToolsExecutor"
                             THEN ToolsExecutorPostCall(tools_call, chunk)
                             ELSE tools_call)
           /\ token_usage' = (IF name = "TokenTracer"
                              THEN TokenTracerPostCall(token_usage, chunk)
                              ELSE token_usage)
           /\ fired' = Append(fired, [item |-> Len(log), hook |-> name])
    /\ IF hook = Len(PostCallHooks)
       THEN pc' = "Streaming" /\ hook' = 0
       ELSE pc' = pc /\ hook' = hook + 1
    /\ UNCHANGED <<mvars, rvars, fault, turn, requests, user_input, answer, ndeltas,
                   todo, followed, log>>

NextHooks ==
    \/ StreamPoll
    \/ PostCall
    \/ StreamEnd

SpecHooks == InitStream /\ [][NextHooks]_vars

(***************************************************************************)
(* The turn loop with the items of the first stream of every turn recorded *)
(* in log, turn after turn, for the token total.                           *)
(***************************************************************************)
UsageElements ==
    {Chunk(FALSE, "", << >>, 7),
     Chunk(TRUE, "lo", << >>, 5),
     Chunk(TRUE, "", << Fragment(0, TRUE, "Add", ArgsWhole) >>, NoUsage),
     TransportError, Malformed}

InitUsage ==
    /\ Init
    /\ max_size = MainCapacity

\* the loop of run takes an item of the stream, which is recorded
UsageTake ==
    /\ pc = "Streaming"
    /\ Len(log) < MaxStream
    /\ \E e \in UsageElements :
          /\ StreamItem(e)
          /\ log' = Append(log, e)
    /\ UNCHANGED <<mvars, rvars, turn, requests, user_input, todo, followed, hook,
                   fired>>

NextUsage ==
    \/ ReadLine
    \/ ReadLineFails
    \/ PreCallExitCommand
    \/ PreCallFileCommand
    \/ PreCallSystemCommand
    \/ PreCallAnswerPrompt
    \/ Submit
    \/ SubmitFails
    \/ UsageTake
    \/ StreamEnd
    \/ PreNextInputToolsExecutor
    \/ DispatchNext
    \/ FollowupSubmit
    \/ FollowupSubmitFails
    \/ FollowupNext
    \/ FollowupEnd
    \/ PreNextInputTokenTracer
    \/ PreNextInputNewLine

SpecUsage == InitUsage /\ [][NextUsage]_vars

(***************************************************************************)
(* Claims about the conversation history, checked under SpecManager.       *)
(***************************************************************************)
\* the add calls so far alternate user, assistant, user, ...
Alternating ==
    \A i \in 1..Len(added) :
        added[i].role = (IF i % 2 = 1 THEN "user" ELSE "assistant")

\* the last k elements of s
LastN(s, k) == SubSeq(s, Len(s) - k + 1, Len(s))

C4_AddNeverFails ==
    added # << >> =>
        /\ fault = "none"
        /\ contexts[Len(contexts)] = added[Len(added)]

\* an add call on a manager of capacity 1 panicked in its second remove
C4_Witness ==
    /\ fault = "RemovePanic"
    /\ max_size = 1
    /\ Len(evicted) = 1

(***************************************************************************)
(* Claims about the registry and the Add tool, checked under SpecRegistry. *)
(***************************************************************************)
RegisteredNames == {ToolName(registered[i]) : i \in 1..Len(registered)}

\* the tool most recently handed to register under this name
LastRegistered(name) ==
    LET is == {i \in 1..Len(registered) : ToolName(registered[i]) = name}
    IN  registered[CHOOSE i \in is : \A j \in is : j <= i]

\* a + b stays within i32
SumFitsI32(a, b) ==
    /\ ~(b > 0 /\ a > I32Max - b)
    /\ ~(b < 0 /\ a < I32Min - b)

\* the last call was execute("Add", {a, b}) with a and b integers of i32
AddCalled ==
    /\ ret.op = "execute" /\ ret.name = "Add"
    /\ ret.params.obj /\ ret.params.a.t = "int" /\ ret.params.b.t = "int"

\* C8: the registry holds one tool per registered name, the one most
\* recently registered under it; execute runs that tool; list_metadata
\* returns one record per registered name.
C8_RegisterOverwrites ==
    /\ \A e1 \in tools, e2 \in tools : e1.key = e2.key => e1 = e2
    /\ MapKeys(tools) = RegisteredNames
    /\ \A e \in tools : e.value = LastRegistered(e.key)
    /\ (ret.op = "execute" /\ ret.name \in RegisteredNames) =>
          /\ ret.by = LastRegistered(ret.name)
          /\ ret.out \in ToolExecute(ret.by, ret.params)
    /\ ret.op = "list_metadata" =>
          /\ Len(ret.list) = Cardinality(RegisteredNames)
          /\ \A name \in RegisteredNames :
                Cardinality({i \in 1..Len(ret.list) : ret.list[i].name = name}) = 1

\* Add was registered a second time, a third tool was registered, and
\* execute("Add") then ran the second instance
C8_Witness ==
    /\ ret.op = "execute" /\ ret.name = "Add"
    /\ ret.by.inst > 0
    /\ Cardinality(RegisteredNames) = 2
    /\ Len(registered) = 3

\* C9 as stated: execute("Add", {a, b}) succeeds and returns the sum a + b
\* for all integers a and b of the range.
C9_AddReturnsSum ==
    AddCalled =>
        /\ ret.out.status = "ok"
        /\ SumFitsI32(ret.params.a.v, ret.params.b.v)
        /\ ret.out.value.v = ret.params.a.v + ret.params.b.v

\* C9 as amended: for i32 a and b whose sum fits i32 the call succeeds and
\* returns {"result": a + b}; when the sum leaves i32 the call panics (a
\* build with overflow checks) or returns the sum wrapped around.
C9_AddReturnsSumWithinI32 ==
    AddCalled =>
        LET a == ret.params.a.v
            b == ret.params.b.v
        IN  IF SumFitsI32(a, b)
            THEN ret.out = Outcome("ok", "", JResult(a + b))
            ELSE \/ ret.out.status = "panic"
                 \/ /\ ret.out.status = "ok"
                    /\ ret.out.value.t = "result"
                    /\ IF b > 0
                       THEN (ret.out.value.v + I32Max) + 1 = (a - I32Max) + (b - 1)
                       ELSE (ret.out.value.v - I32Max) - 1 = (a + I32Max) + (b + 1)

\* execute("Add", {a: 3, b: 5}) returned {"result": 8}
C9_Witness ==
    /\ AddCalled
    /\ ret.params.a.v = 3 /\ ret.params.b.v = 5
    /\ ret.out = Outcome("ok", "", JResult(8))

(***************************************************************************)
(* Claims about the turn loop, checked under Spec.                         *)
(***************************************************************************)
\* the pending call of an index
Pending(index) == MapGet(tools_call, index)

\* the name of the pending call is registered
KnownName(index) == MapHas(tools, Pending(index).name)

\* the accumulated arguments of the pending call parse as JSON
Parsable(index) == ParseJson(Pending(index).arguments).ok

\* the user messages appended so far
UserAdds == {i \in 1..Len(added) : added[i].role = "user"}

\* C2: whatever an add call that returns has evicted is two messages, a
\* user message and the assistant message that follows it, also when tool
\* messages are in the history.
C2_EvictsWholePair ==
    (evicted # << >> /\ fault # "RemovePanic") =>
        /\ Len(evicted) = 2
        /\ evicted[1].role = "user"
        /\ evicted[2].role = "assistant"
        /\ evicted[2].n = evicted[1].n + 1

\* C5: when the dispatch fails on arguments that do not parse, every other
\* pending call that parses and names a registered tool has been executed
\* and has its tool message: none of them is left unvisited.
C5_ParseFailureSparesSiblings ==
    fault = "ArgumentParseError" =>
        \A index \in todo : ~(Parsable(index) /\ KnownName(index))

\* C6: a turn submits at most two requests; while the follow-up stream is
\* consumed nothing but the rendering happens (the pending calls, the token
\* total, the answer and the history stay as they are, no request is
\* submitted) until the stream ends, when the pending calls are cleared and
\* the turn goes on to the usage report, the newline and the next input
\* without entering the dispatch again.
C6_SingleFollowupRound ==
    [][/\ requests' <= 2
       /\ pc = "FollowupStreaming" =>
             /\ pc' \in {"FollowupStreaming", "TokenTracer", "Terminated"}
             /\ requests' = requests
             /\ token_usage' = token_usage
             /\ answer' = answer
             /\ contexts' = contexts /\ added' = added
             /\ IF pc' = "TokenTracer"
                THEN tools_call' = MapEmpty
                ELSE tools_call' = tools_call
       /\ pc \in {"TokenTracer", "NewLine"} =>
             /\ pc' \in {"NewLine", "AwaitInput"}
             /\ requests' = requests
             /\ tools_call' = tools_call
      ]_vars

\* a follow-up stream that carried fragments with a name was consumed to
\* its end and the turn is complete, two requests submitted
C6_Witness ==
    /\ pc = "AwaitInput"
    /\ requests = 2
    /\ followed > 0
    /\ tools_call = MapEmpty
    /\ fault = "none"

\* C7: the dispatch of a pending call whose name is not registered panics
\* with Unknown Tool: the step ends the process and appends nothing, the
\* process stays ended with one request submitted in the turn, a call that
\* the dispatch completes is one of a registered tool, and an error value
\* only ever comes from a registered tool.
C7_UnknownToolIsFatal ==
    [][/\ (pc = "ToolDispatch" /\ todo' # todo) =>
             \A index \in todo \ todo' : KnownName(index)
       /\ (fault # "Unknown Tool" /\ fault' = "Unknown Tool") =>
             /\ pc = "ToolDispatch" /\ pc' = "Terminated"
             /\ \E index \in todo : Parsable(index) /\ ~KnownName(index)
             /\ contexts' = contexts /\ added' = added
             /\ requests = 1 /\ requests' = 1
       /\ (pc = "ToolDispatch" /\ fault' = "ToolError") =>
             \E index \in todo : Parsable(index) /\ KnownName(index)
       /\ fault = "Unknown Tool" => UNCHANGED vars
      ]_vars

\* of two pending calls the one of Add was executed and has its tool
\* message, and the one of a name that is not registered ended the process
C7_Witness ==
    /\ pc = "Terminated" /\ fault = "Unknown Tool"
    /\ Cardinality(tools_call) = 2
    /\ Cardinality(todo) = 1
    /\ \A index \in todo : ~KnownName(index)
    /\ added[Len(added)].role = "tool"

\* C10: once the line read begins with the exit word, the process is at
\* the exit command or has ended by its process::exit; the line is as it
\* was read (no later command has rewritten it), no user message has been
\* appended for the turn and no request has been submitted.
C10_ExitTerminatesAtOnce ==
    ExitIs(user_input) =>
        /\ pc \in {"ExitCommand", "Terminated"}
        /\ pc = "Terminated" => fault = "Exit"
        /\ user_input \in TurnInputs
        /\ requests = 0
        /\ Cardinality(UserAdds) = turn - 1

\* in the second turn a line that begins with the exit word and names a
\* file ended the process
C10_Witness ==
    /\ pc = "Terminated" /\ fault = "Exit"
    /\ turn = 2
    /\ FileIs(user_input)
    /\ Cardinality(UserAdds) = 1

(***************************************************************************)
(* Claims about the commands of the pre-call hooks, checked under          *)
(* SpecTransform.                                                          *)
(***************************************************************************)
\* the characters the file inclusion is to leave of a line: a token of a
\* readable file gives "<path>: <content>", anything else its own
\* characters
RECURSIVE Included(_)
Included(line) ==
    IF line = << >> THEN ""
    ELSE LET a == Head(line)
         IN  (IF a.kind = "file" /\ Readable(a.s)
              THEN a.s \o ": " \o RenderAll(FileContent(a.s))
              ELSE Render(a)) \o Included(Tail(line))

\* the ways a command that fails ends the process
CommandPanics == {"SplitPanic", "SplitFirstPanic", "Failed to get command output"}

\* C11: the file command leaves of every line the characters in which
\* each token of a readable file is replaced by "<path>: <content>" and
\* everything else (tokens of unreadable files, the text between) is as
\* written, and it returns Ok: the command that follows runs.
C11_FileInclusion ==
    [][pc = "FileCommand" =>
          /\ pc' = "SystemCommand" /\ fault' = "none"
          /\ RenderAll(user_input') = Included(user_input)
          /\ ~FileIs(user_input) => user_input' = user_input
      ]_vars

\* the line "What is 2+2? @file(notes.txt)@file(missing.txt)" is ready for
\* submission with the first token replaced and the second as written
C11_Witness ==
    /\ pc = "Submitting"
    /\ RenderAll(user_input) = "What is 2+2? notes.txt: hello@file(missing.txt)"

\* C12: a command that fails never ends the process: whether it exits
\* with a failure, cannot be started, is empty or cannot be split, the run
\* goes on.
C12_FailingCommandRecoverable ==
    ~(pc = "Terminated" /\ fault \in CommandPanics)

(***************************************************************************)
(* Claims about one stream and the dispatch that follows it, checked under *)
(* SpecStream.                                                             *)
(***************************************************************************)
\* the fragments of the chunks of a log, in the order of arrival
RECURSIVE Flat(_)
Flat(l) ==
    IF l = << >> THEN << >>
    ELSE (IF Head(l).kind = "chunk" /\ Head(l).choices
          THEN Head(l).tool_calls ELSE << >>) \o Flat(Tail(l))

\* the fragment bears a name for the index
Names(f, index) == f.function /\ f.index = index /\ f.name # None

\* the indices for which a fragment bore a name
Known(frs) == {frs[i].index : i \in {j \in 1..Len(frs) : frs[j].function /\ frs[j].name # None}}

\* the name of the first fragment that bears one for the index
FirstName(frs, index) ==
    frs[CHOOSE i \in 1..Len(frs) :
            Names(frs[i], index) /\ \A j \in 1..(i - 1) : ~Names(frs[j], index)].name

\* the arguments that arrived for the index once it was known, in the
\* order of arrival
RECURSIVE ArrivedFrom(_, _, _)
ArrivedFrom(frs, index, known) ==
    IF frs = << >> THEN ""
    ELSE LET f == Head(frs)
             now == known \/ Names(f, index)
         IN  (IF f.function /\ f.index = index /\ now /\ f.arguments # None
              THEN f.arguments ELSE "")
             \o ArrivedFrom(Tail(frs), index, now)

\* the contents of the first choices of the chunks of a log, in the order
\* of arrival
RECURSIVE Contents(_)
Contents(l) ==
    IF l = << >> THEN ""
    ELSE (IF Head(l).kind = "chunk" /\ Head(l).choices THEN Head(l).content ELSE "")
         \o Contents(Tail(l))

\* the step takes an item from the stream
Taken == pc = "Streaming" /\ Len(log') = Len(log) + 1

\* the fragments of the item a step takes
TakenFragments == Flat(<< log'[Len(log')] >>)

\* arguments without a name for an index that has no entry
Orphan(f) ==
    f.function /\ f.name = None /\ f.arguments # None /\ ~MapHas(tools_call, f.index)

AssistantAdds == {i \in 1..Len(added) : added[i].role = "assistant"}

ToolAdds == {i \in 1..Len(added) : added[i].role = "tool"}

\* C13: an item of the stream that does not deserialize ends the process
\* with the error at that item: the answer, the pending calls and the token
\* total are as the earlier items left them, no message is appended, and
\* nothing happens afterwards.
C13_MalformedAbortsStream ==
    [][/\ (Taken /\ log'[Len(log')].kind = "malformed") =>
             /\ pc' = "Terminated" /\ fault' = "DeserializeError"
             /\ UNCHANGED <<answer, tools_call, token_usage, contexts, added>>
       /\ fault = "DeserializeError" => UNCHANGED vars
      ]_vars

\* after a chunk with content and a chunk that named a call, a third item
\* did not deserialize; only the user message is in the history
C13_Witness ==
    /\ pc = "Terminated" /\ fault = "DeserializeError"
    /\ Len(log) = 3
    /\ answer = "Hel"
    /\ tools_call # MapEmpty
    /\ added = << HiMessage >>

\* C14: an item of the stream leaves every pending entry in place with
\* its name, its arguments those it had followed by the arguments the item
\* brought for its index; an entry the item creates has the name of the
\* first fragment that bore one for its index and the arguments that
\* arrived after it.
C14_EntryNeverReset ==
    [][Taken =>
          /\ \A index \in MapKeys(tools_call) :
                /\ MapHas(tools_call', index)
                /\ MapGet(tools_call', index).name = MapGet(tools_call, index).name
                /\ MapGet(tools_call', index).arguments =
                      MapGet(tools_call, index).arguments
                      \o ArrivedFrom(TakenFragments, index, TRUE)
          /\ \A index \in MapKeys(tools_call') \ MapKeys(tools_call) :
                /\ MapGet(tools_call', index).name = FirstName(TakenFragments, index)
                /\ MapGet(tools_call', index).arguments =
                      ArrivedFrom(TakenFragments, index, FALSE)
      ]_vars

\* C15: when the stream has ended, the pending calls are those of the
\* indices for which a name arrived, each with the arguments that arrived
\* for its index once it was known, concatenated in the order of arrival.
C15_ArgumentsConcatenated ==
    pc = "ToolsExecutor" =>
        /\ MapKeys(tools_call) = Known(Flat(log))
        /\ \A index \in MapKeys(tools_call) :
              MapGet(tools_call, index).arguments = ArrivedFrom(Flat(log), index, FALSE)

\* C16: an item leaves without an entry every index that had none and
\* for which it bears no name; an item all of whose fragments are
\* arguments without a name for indices without an entry changes nothing
\* of the pending calls, and the stream goes on.
C16_OrphanIgnored ==
    [][(Taken /\ log'[Len(log')].kind = "chunk") =>
          /\ \A index \in MapKeys(tools_call') \ MapKeys(tools_call) :
                \E i \in 1..Len(TakenFragments) : Names(TakenFragments[i], index)
          /\ (TakenFragments # << >>
              /\ \A i \in 1..Len(TakenFragments) : Orphan(TakenFragments[i])) =>
                /\ tools_call' = tools_call
                /\ pc' = "Streaming" /\ fault' = "none"
      ]_vars

\* a stream with a chunk of arguments for an index that was never named
\* has ended, no call pending
C16_Witness ==
    /\ pc = "ToolsExecutor"
    /\ tools_call = MapEmpty
    /\ \E i \in 1..Len(log) :
          /\ log[i].kind = "chunk"
          /\ log[i].tool_calls # << >>
          /\ \A j \in 1..Len(log[i].tool_calls) :
                /\ log[i].tool_calls[j].function
                /\ log[i].tool_calls[j].name = None
                /\ log[i].tool_calls[j].arguments = ArgsHead

\* C18: when the follow-up request is submitted, the messages appended
\* after the assistant message are tool messages, one for each pending
\* call, with the index of the call as tool_call_id and the serialized
\* result as content, and the history the request is built from holds all
\* of them.
C18_ToolMessagesInFollowup ==
    pc = "FollowupStreaming" =>
        /\ ToolAdds = 3..Len(added)
        /\ Len(added) - 2 = Cardinality(MapKeys(tools_call))
        /\ \A index \in MapKeys(tools_call) :
              \E i \in ToolAdds :
                 /\ added[i].tool_call_id = ToString(index)
                 /\ added[i].content = "{\"result\":3}"
        /\ \A i \in ToolAdds :
              \E j \in 1..Len(contexts) : contexts[j] = added[i]

\* C20: once the stream has ended, one assistant message has been
\* appended, right after the user message, and its content is the
\* concatenation of the contents of the chunks of the stream in the order
\* of arrival; while the stream runs, or when it was aborted, none has.
C20_AssistantIsConcatenation ==
    IF pc = "Streaming" \/ fault = "DeserializeError"
    THEN AssistantAdds = {}
    ELSE /\ AssistantAdds = {2}
         /\ added[2].content = Contents(log)
         /\ pc = "ToolsExecutor" => contexts[Len(contexts)] = added[2]

\* the stream Hel, an Err item, lo has ended and the assistant message
\* Hello is the last of the history
C20_Witness ==
    /\ pc = "ToolsExecutor"
    /\ Len(log) = 3
    /\ \E i \in 1..3 : log[i].kind = "error"
    /\ contexts[Len(contexts)].role = "assistant"
    /\ contexts[Len(contexts)].content = "Hello"

(***************************************************************************)
(* Further claims about the turn loop, checked under Spec.                 *)
(***************************************************************************)
\* C17: when the stream has ended, the dispatch begins if and only if a
\* call is pending; without one the turn goes on to the usage report, no
\* message appended and no request submitted; the dispatch and the
\* follow-up stream are entered in no other way, the second request of a
\* turn is submitted from the dispatch only, and a turn that completes has
\* either submitted one request and appended the assistant message last or
\* submitted two and appended a tool message last.
C17_DispatchIffPending ==
    [][/\ pc = "ToolsExecutor" =>
             IF tools_call = MapEmpty
             THEN /\ pc' = "TokenTracer"
                  /\ UNCHANGED <<requests, added, contexts>>
             ELSE pc' = "ToolDispatch" /\ todo' = MapKeys(tools_call)
       /\ pc' = "ToolDispatch" =>
             /\ pc \in {"ToolsExecutor", "ToolDispatch"}
             /\ tools_call # MapEmpty
       /\ pc' = "FollowupStreaming" =>
             /\ pc \in {"ToolDispatch", "FollowupStreaming"}
             /\ tools_call # MapEmpty
       /\ requests' = 2 => (requests = 2 \/ pc = "ToolDispatch")
       /\ added' # added /\ added'[Len(added')].role = "tool" => pc = "ToolDispatch"
       /\ (pc = "NewLine" /\ pc' = "AwaitInput") =>
             \/ requests = 1 /\ added[Len(added)].role = "assistant"
             \/ requests = 2 /\ added[Len(added)].role = "tool"
      ]_vars

\* the first turn dispatched a call and the second, without one, is
\* complete with one request submitted
C17_Witness ==
    /\ pc = "AwaitInput" /\ turn = 2
    /\ requests = 1
    /\ Cardinality(ToolAdds) = 1
    /\ added[Len(added)].role = "assistant"

\* C19: no call is pending while the loop awaits the line, while the
\* pre-call hooks run and when the request of the turn is submitted: the
\* stream of a turn starts from an empty set.
C19_PendingEmptyAtTurnStart ==
    pc \in {"AwaitInput", "ExitCommand", "FileCommand", "SystemCommand",
            "AnswerPrompt", "Submitting"} =>
        tools_call = MapEmpty

\* the second turn has begun after a turn that dispatched two calls
C19_Witness ==
    /\ pc = "ExitCommand" /\ turn = 2
    /\ Cardinality(ToolAdds) = 2
    /\ tools_call = MapEmpty

(***************************************************************************)
(* Further claims about the context manager, checked under SpecManager.    *)
(***************************************************************************)
\* C25: the first stored message is the system message in every state, no
\* add moves or replaces it, and what an eviction takes away are the
\* messages that stood right behind it (each the one at index 1 when it was
\* removed), the rest keeping its order.
C25_SystemMessageStaysFirst ==
    [][ /\ contexts[1] = ManagerNew[1]
        /\ contexts'[1] = ManagerNew[1]
        /\ evicted' = SubSeq(contexts, 2, 1 + Len(evicted'))
        /\ Len(contexts') >= Len(contexts) - Len(evicted')
        /\ SubSeq(contexts', 1, Len(contexts) - Len(evicted')) =
              << contexts[1] >> \o SubSeq(contexts, 2 + Len(evicted'), Len(contexts))
      ]_vars

\* an add evicted two messages from a full history of capacity 4 and left
\* the system message in front
C25_Witness ==
    /\ fault = "none"
    /\ max_size = 4
    /\ Len(evicted) = 2
    /\ Len(added) > max_size + 2
    /\ contexts[1] = ManagerNew[1]

\* C26: the stored messages after the system message are, in the order in
\* which they were added, the most recently added ones: a suffix of
\* everything ever added, with no gap and nothing out of place.
C26_SnapshotIsSuffix ==
    /\ Len(contexts) - 1 <= Len(added)
    /\ Tail(contexts) = LastN(added, Len(contexts) - 1)

\* messages of all three roles were added in no particular pattern, some
\* were evicted and at least three are still stored
C26_Witness ==
    /\ fault = "none"
    /\ ~Alternating
    /\ evicted # << >>
    /\ Len(contexts) >= 4
    /\ Len(added) >= Len(contexts) + 3

(***************************************************************************)
(* Further claims about the pre-call hooks, checked under SpecTransform.   *)
(***************************************************************************)
\* a token of a readable file stands in the line
ReadableToken(line) ==
    \E i \in 1..Len(line) : line[i].kind = "file" /\ Readable(line[i].s)

\* C24: the exit command runs first, the file command second and the shell
\* command third, each on the line the one before left: once the file
\* command is done no token of a readable file is left, and once the shell
\* command is done no command that runs and succeeds is left, the commands
\* that came in with the content of a file included.
C24_TransformsChained ==
    [][ /\ pc = "ExitCommand" => pc' \in {"FileCommand", "Terminated"}
        /\ pc = "FileCommand" =>
              /\ pc' = "SystemCommand"
              /\ ~ReadableToken(user_input')
        /\ pc = "SystemCommand" =>
              /\ pc' \in {"AnswerPrompt", "Terminated"}
              /\ pc' = "AnswerPrompt" =>
                    /\ ~ReadableToken(user_input')
                    /\ SystemIs(user_input') =>
                          /\ CommandRun(user_input').kind = "failure"
                          /\ user_input' = user_input
      ]_vars

\* the line "@file(cmd.txt)", whose file holds the command echo out, is
\* ready for submission with the output of the command in the place of the
\* command
C24_Witness ==
    /\ pc = "Submitting"
    /\ fault = "none"
    /\ RenderAll(user_input) = "cmd.txt: out\n"

(***************************************************************************)
(* Further claims about one stream, checked under SpecStream.              *)
(***************************************************************************)
\* an Err item was taken from the stream
ErrorSeen == \E i \in 1..Len(log) : log[i].kind = "error"

\* C28: an Err item of the stream changes nothing but the position in the
\* stream: answer, pending calls and token total stay, the run neither ends
\* nor appends a message; the chunks after it are taken as any other, and
\* at the end of the stream the assistant message is appended with the
\* contents of the chunks, the ones after the Err item included.
C28_TransportErrorSkipped ==
    [][ /\ (Taken /\ log'[Len(log')].kind = "error") =>
              /\ pc' = "Streaming" /\ fault' = "none"
              /\ UNCHANGED <<answer, tools_call, token_usage, contexts, added,
                             requests>>
        /\ (Taken /\ ErrorSeen /\ log'[Len(log')].kind = "chunk") =>
              /\ pc' = "Streaming" /\ fault' = "none"
              /\ answer' = answer \o Contents(<< log'[Len(log')] >>)
              /\ MapKeys(tools_call) \subseteq MapKeys(tools_call')
              /\ Known(TakenFragments) \subseteq MapKeys(tools_call')
        /\ (pc = "Streaming" /\ ErrorSeen /\ Len(added') > Len(added)) =>
              /\ added'[Len(added')].role = "assistant"
              /\ added'[Len(added')].content = Contents(log)
      ]_vars

\* the stream gave an Err item, the chunk "Hel" and another Err item, and
\* ended: the assistant message "Hel" was appended
C28_Witness ==
    /\ pc = "ToolsExecutor"
    /\ Len(log) = 3
    /\ log[1].kind = "error" /\ log[2].kind = "chunk" /\ log[3].kind = "error"
    /\ added[Len(added)].role = "assistant"
    /\ added[Len(added)].content = "Hel"

(***************************************************************************)
(* Claims about the post-call hooks, checked under SpecHooks.              *)
(***************************************************************************)
\* the calls of the post-call hooks that the first n items of the log are
\* to get: for every chunk the reasoning renderer, the content renderer, the
\* accumulator of tool calls and the token tracer, in this order
RECURSIVE Calls(_)
Calls(n) ==
    IF n = 0 THEN << >>
    ELSE Calls(n - 1) \o
         (IF log[n].kind = "chunk"
          THEN << [item |-> n, hook |-> "ReasoningCollector"],
                  [item |-> n, hook |-> "ContentCollector"],
                  [item |-> n, hook |-> "ToolsExecutor"],
                  [item |-> n, hook |-> "TokenTracer"] >>
          ELSE << >>)

\* C22: the post-call hooks are called once for every chunk of the stream,
\* in the order reasoning renderer, content renderer, accumulator of tool
\* calls, token tracer, and the calls for one chunk are all made before the
\* next item is taken: at any moment the calls made are those of the chunks
\* taken so far, the last of them possibly under way.
C22_HooksOncePerDeltaInOrder ==
    /\ pc # "PostCall" => fired = Calls(Len(log))
    /\ pc = "PostCall" =>
          /\ hook \in 1..4
          /\ fired = SubSeq(Calls(Len(log)), 1, Len(Calls(Len(log))) - 4 + hook - 1)

\* a stream of a chunk with content, an Err item and a chunk with a usage
\* record has ended: eight calls were made
C22_Witness ==
    /\ pc = "ToolsExecutor"
    /\ Len(log) = 3
    /\ log[1].kind = "chunk" /\ log[2].kind = "error" /\ log[3].kind = "chunk"
    /\ Len(fired) = 8
    /\ token_usage = 7
    /\ answer = "Hel"

(***************************************************************************)
(* Further claims about the turn loop, checked under Spec.                 *)
(***************************************************************************)
\* the positions of a turn, each with the one that may follow it
TurnOrder ==
    {<< "AwaitInput", "ExitCommand" >>, << "ExitCommand", "FileCommand" >>,
     << "FileCommand", "SystemCommand" >>, << "SystemCommand", "AnswerPrompt" >>,
     << "AnswerPrompt", "Submitting" >>, << "Submitting", "Streaming" >>,
     << "Streaming", "Streaming" >>, << "Streaming", "ToolsExecutor" >>,
     << "ToolsExecutor", "ToolDispatch" >>, << "ToolsExecutor", "TokenTracer" >>,
     << "ToolDispatch", "ToolDispatch" >>, << "ToolDispatch", "FollowupStreaming" >>,
     << "FollowupStreaming", "FollowupStreaming" >>,
     << "FollowupStreaming", "TokenTracer" >>, << "TokenTracer", "NewLine" >>,
     << "NewLine", "AwaitInput" >>}

\* the step appends a message of the role
Appends(role) ==
    /\ Len(added') = Len(added) + 1
    /\ added'[Len(added')].role = role

\* C21: a turn goes through its stages in one order: the pre-call hooks,
\* the user message (the line as the hooks left it) and the first request,
\* whose messages end with it, the stream, the assistant message, then for
\* pending calls only the tool messages, the second request and the
\* follow-up stream to its end, then the usage report, the newline and the
\* next line.  Nothing is appended, submitted or rewritten at another
\* stage, and a line is read only when the turn before is complete.
C21_TurnOrder ==
    [][ /\ pc' = "Terminated" \/ << pc, pc' >> \in TurnOrder
        /\ user_input' # user_input =>
              pc \in {"AwaitInput", "ExitCommand", "FileCommand", "SystemCommand"}
        /\ turn' # turn => pc = "AwaitInput" /\ requests' = 0
        /\ (pc = "Submitting" /\ pc' = "Streaming") =>
              /\ Appends("user")
              /\ added'[Len(added')].content = RenderAll(user_input)
              /\ contexts'[Len(contexts')] = added'[Len(added')]
              /\ requests = 0 /\ requests' = 1
        /\ (pc = "Streaming" /\ pc' = "ToolsExecutor") =>
              /\ Appends("assistant")
              /\ added'[Len(added')].content = answer
              /\ requests' = 1
        /\ (pc = "ToolsExecutor" /\ pc' = "TokenTracer") => tools_call = MapEmpty
        /\ (pc = "ToolDispatch" /\ pc' = "ToolDispatch") => Appends("tool")
        /\ (pc = "ToolDispatch" /\ pc' = "FollowupStreaming") =>
              /\ added' = added
              /\ added[Len(added)].role = "tool"
              /\ requests = 1 /\ requests' = 2
        /\ (pc' # "Terminated" /\ added' # added) =>
              pc \in {"Submitting", "Streaming", "ToolDispatch"}
        /\ (pc' # "Terminated" /\ requests' # requests) =>
              pc \in {"AwaitInput", "Submitting", "ToolDispatch"}
      ]_vars

\* two turns are complete: the first dispatched a call and consumed a
\* follow-up stream, the second dispatched two
C21_Witness ==
    /\ pc = "AwaitInput" /\ turn = 2 /\ fault = "none"
    /\ requests = 2
    /\ Len(added) = 7
    /\ added[3].role = "tool" /\ added[4].role = "user"
    /\ added[6].role = "tool" /\ added[7].role = "tool"

\* the Errs a hook of the model returns: both come from
\* ToolsExecutor::pre_next_input, the first of the pre-next-input hooks
HookErrors == {"ArgumentParseError", "ToolError"}

\* C23: when a hook returns an Err the process ends there: the step that
\* fails appends no message, submits no request and changes nothing else,
\* no step follows it (the hooks after it, the usage report and the
\* newline, do not run and no line is read); and the dispatch never passes
\* over a call that fails to go on with the next.
C23_HookFailureEndsRun ==
    [][ /\ (fault = "none" /\ fault' \in HookErrors) =>
              /\ pc = "ToolDispatch" /\ pc' = "Terminated"
              /\ \E index \in todo : ~Parsable(index) \/ KnownName(index)
              /\ UNCHANGED <<contexts, added, requests, turn, tools_call, todo,
                             token_usage>>
              /\ requests = 1
        /\ (pc = "ToolDispatch" /\ todo' # todo) =>
              /\ \A index \in todo \ todo' : Parsable(index) /\ KnownName(index)
              /\ Appends("tool")
        /\ fault \in HookErrors => UNCHANGED vars
      ]_vars

\* of two pending calls one was executed and has its tool message, and the
\* arguments of the other did not parse: the process ended
C23_Witness ==
    /\ pc = "Terminated" /\ fault = "ArgumentParseError"
    /\ Cardinality(tools_call) = 2
    /\ Cardinality(todo) = 1
    /\ \A index \in todo : ~Parsable(index)
    /\ added[Len(added)].role = "tool"
    /\ requests = 1

\* C27: while the follow-up stream is consumed and when it ends the
\* history is left as it is; an assistant message is only ever appended
\* right after a user message; after a turn with a dispatch the message
\* appended last, which is also the last of the history, is a tool message
\* until the user message of the next turn is appended right behind it
\* (with the capacity of main it is also stored right behind it).
C27_FollowupLeavesHistory ==
    [][ /\ pc = "FollowupStreaming" =>
              UNCHANGED <<contexts, added, evicted, max_size>>
        /\ (fault = "none" /\ requests = 2) =>
              /\ pc \in {"FollowupStreaming", "TokenTracer", "NewLine", "AwaitInput"}
              /\ added[Len(added)].role = "tool"
              /\ contexts[Len(contexts)] = added[Len(added)]
        /\ pc \in {"TokenTracer", "NewLine", "AwaitInput", "ExitCommand", "FileCommand",
                   "SystemCommand", "AnswerPrompt"} => added' = added /\ contexts' = contexts
        /\ Appends("assistant") => added[Len(added)].role = "user"
        /\ (Appends("user") /\ added # << >>) =>
              added[Len(added)].role \in {"assistant", "tool"}
        /\ (Appends("user") /\ added # << >> /\ max_size = MainCapacity) =>
              contexts'[Len(contexts') - 1] = added[Len(added)]
      ]_vars

\* the user message of the second turn stands right behind the tool
\* message of the first in the history
C27_Witness ==
    /\ turn = 2 /\ pc = "Streaming" /\ fault = "none"
    /\ max_size = MainCapacity
    /\ Len(contexts) = 5
    /\ contexts[2].role = "user" /\ contexts[3].role = "assistant"
    /\ contexts[4].role = "tool" /\ contexts[5].role = "user"

(***************************************************************************)
(* Claims about the token total, checked under SpecUsage.                  *)
(***************************************************************************)
\* the sum of total_tokens over the chunks of a log that bear a usage record
RECURSIVE UsageSum(_)
UsageSum(l) ==
    IF l = << >> THEN 0
    ELSE (IF Head(l).kind = "chunk" /\ Head(l).usage # NoUsage THEN Head(l).usage ELSE 0)
         + UsageSum(Tail(l))

\* C29: the token total is at every moment the sum of total_tokens over
\* the chunks with a usage record taken so far from the first streams of
\* all turns: it changes only while such a stream is consumed, it never
\* goes down and it does not start over with a turn; the items of a
\* follow-up stream leave it as it is.
C29_TotalIsSumOverPrimaryStreams ==
    [][ /\ token_usage' = UsageSum(log')
        /\ token_usage' >= token_usage
        /\ pc # "Streaming" => token_usage' = token_usage
      ]_vars

\* the second turn is complete and the total is that of both turns, 7 from
\* the first, which dispatched a call and took an item from its follow-up
\* stream, and 5 from the second
C29_Witness ==
    /\ pc = "AwaitInput" /\ turn = 2 /\ fault = "none"
    /\ token_usage = 12
    /\ Len(log) = 3
    /\ log[3].usage = 5
    /\ ndeltas > Len(log)
    /\ Cardinality(ToolAdds) = 1
    /\ answer = "lo"

=============================================================================
